---- MODULE Spec2Model ----
(***************************************************************************)
(* A model of the `hp` command line argument parser (src/src/lib.rs):      *)
(* the template registry of `Parser` (stored, order, last_id), the four    *)
(* registration calls and `Parser::parse`.                                 *)
(*                                                                         *)
(* A registry key is the string "{context}#{alias}" in the source.  The    *)
(* context is printed as decimal digits, which never contain '#', so the  *)
(* string determines the pair (context, alias) and the model keeps the    *)
(* pair <<context, alias>> instead of the formatted string.                *)
(***************************************************************************)
EXTENDS Integers, Sequences, FiniteSets, TLC

VARIABLES
    stored,        \* Parser.stored: key -> Template
    order,         \* Parser.order: the aliases in registration order
    last_id,       \* Parser.last_id
    exit_on_help,  \* Parser.exit_on_help
    returned,      \* history: the identifiers the registration calls returned
    registered,    \* history: the templates as the registration calls stored them
    args,          \* the tokens of the last parse call
    context,       \* parse: the local `context` when the call ended
    hm,            \* parse: the local `hm` when the call ended
    idhm,          \* parse: the local `idhm` when the call ended
    ret,           \* how the last parse call ended
    calls,         \* history: the callback invocations of the last parse call
    helps,         \* history: the help messages printed by the last parse call
    trace,         \* history: one event per token the last parse call processed
    second         \* the run of a second parse call on the same tokens, if any

regvars == <<stored, order, last_id, returned, registered>>
runvars == <<args, context, hm, idhm, ret, calls, helps, trace, second>>
vars == <<stored, order, last_id, exit_on_help, returned, registered,
          args, context, hm, idhm, ret, calls, helps, trace, second>>

(***************************************************************************)
(* Bounds of the model.                                                    *)
(***************************************************************************)
\* Registration calls made on one parser.
MaxRegs == 2
\* Tokens handed to one parse call.
MaxArgs == 4
\* Operands that follow the operation on a command line of calc.
MaxOperands == 3

\* The strings that occur as aliases and as tokens; a name that no template
\* lists is a plain value.
Names == {"a", "b", "c"}
\* Parent identifiers handed to the subcommand registrations.
Parents == {0, 1, 2, 3}

\* The token vectors handed to parse: those without a help token, and those
\* with one or more among an alias of each template.
ArgLists == UNION {[1..n -> Names] : n \in 0..MaxArgs}
HelpArgLists ==
    {l \in UNION {[1..n -> {"a", "c", "-h"}] : n \in 1..MaxArgs} :
        \E i \in 1..Len(l) : l[i] = "-h"}

Range(s) == {s[i] : i \in 1..Len(s)}

(***************************************************************************)
(* Template and its builder methods.                                       *)
(* Option<usize> is a sequence of length at most one: <<>> is None.        *)
(* The help string is presentation only and is left out.                   *)
(***************************************************************************)
None == <<>>
Some(x) == <<x>>

TemplateNew ==
    [matches |-> <<>>, num_values |-> 0, optional_vals |-> FALSE,
     subargument_of |-> None, id |-> 0, action |-> FALSE]

Matches(t, name) ==
    IF name \in Range(t.matches) THEN t
    ELSE [t EXCEPT !.matches = Append(@, name)]

NumberOfValues(t, nv) == [t EXCEPT !.num_values = nv]

OptionalValues(t, ov) == [t EXCEPT !.optional_vals = ov]

OnParse(t) == [t EXCEPT !.action = TRUE]

SetId(t, id) == [t EXCEPT !.id = id]

Subarg(t, id) == [t EXCEPT !.subargument_of = Some(id)]

UnwrapOr(o, d) == IF o = None THEN d ELSE o[1]

\* How many values the optional template of the model asks for.
ManyValues == 99

\* The templates handed to add_template and add_subcommand_template: one
\* with optional values and one with two required values, each with two
\* aliases and a callback.
TemplateInputs ==
    { OnParse(OptionalValues(
          NumberOfValues(Matches(Matches(TemplateNew, "a"), "b"), ManyValues),
          TRUE)),
      OnParse(OptionalValues(
          NumberOfValues(Matches(Matches(TemplateNew, "c"), "b"), 2),
          FALSE)) }

\* The (name, number of values) pairs handed to add and add_subcommand.
SugarInputs == {<<"c", 0>>}

(***************************************************************************)
(* Registration.                                                           *)
(***************************************************************************)
Key(ctx, name) == <<ctx, name>>

\* (mutant) HashMap::insert that keeps the value a key already has.
InsertKeepingFirst(map, k, v) == map @@ (k :> v)

\* HashMap::insert: the value replaces the one the key had.
Insert(map, k, v) == (k :> v) @@ map

\* generate_id: the counter after the call; the call returns the same value.
GenerateId(last) == last + 1

\* (mutant) add_to_map writes an entry for the first alias only.
RECURSIVE InsertAliasesFirstOnly(_, _, _)
InsertAliasesFirstOnly(reg, template, i) ==
    IF i > Len(template.matches) \/ i > 1 THEN reg
    ELSE LET name == template.matches[i]
             subarg == UnwrapOr(template.subargument_of, 0)
             new_name == Key(subarg, name)
         IN InsertAliasesFirstOnly(
                [stored |-> Insert(reg.stored, new_name, template),
                 order |-> Append(reg.order, name)],
                template, i + 1)

\* The loop of add_to_map over template.matches, from alias number i on.
RECURSIVE InsertAliases(_, _, _)
InsertAliases(reg, template, i) ==
    IF i > Len(template.matches) THEN reg
    ELSE LET name == template.matches[i]
             subarg == UnwrapOr(template.subargument_of, 0)
             new_name == Key(subarg, name)
         IN InsertAliases([stored |-> Insert(reg.stored, new_name, template),
                           order |-> Append(reg.order, name)],
                          template, i + 1)

\* add_to_map on the registry (st, ord, last): the new registry, the
\* identifier returned and the template as it was stored.
AddToMap(st, ord, last, template) ==
    LET template_id == GenerateId(last)
        t == SetId(template, template_id)
        reg == InsertAliases([stored |-> st, order |-> ord], t, 1)
    IN [stored |-> reg.stored, order |-> reg.order,
        last_id |-> template_id, returned |-> template_id, template |-> t]

\* (mutant) The subcommand registrations return the identifier they
\* generate themselves, not the one add_to_map returns.
AddChildToMapReturningFirst(st, ord, last, subargument_of, template) ==
    LET id == GenerateId(last)
        t == Subarg(SetId(template, id), subargument_of)
    IN [AddToMap(st, ord, id, t) EXCEPT !.returned = id]

\* add_subcommand and add_subcommand_template: an identifier is generated
\* and set, the parent is stamped, and add_to_map generates another one.
AddChildToMap(st, ord, last, subargument_of, template) ==
    LET id == GenerateId(last)
        t == Subarg(SetId(template, id), subargument_of)
    IN AddToMap(st, ord, id, t)

Init ==
    /\ stored = <<>>
    /\ order = <<>>
    /\ last_id = 0
    /\ exit_on_help = TRUE
    /\ returned = <<>>
    /\ registered = <<>>
    /\ args = <<>>
    /\ context = 0
    /\ hm = <<>>
    /\ idhm = <<>>
    /\ ret = [kind |-> "none"]
    /\ calls = <<>>
    /\ helps = 0
    /\ trace = <<>>
    /\ second = <<>>

\* Templates are registered before the first parse call, MaxRegs of them.
Registering == ret.kind = "none" /\ Len(returned) < MaxRegs

Commit(r) ==
    /\ stored' = r.stored
    /\ order' = r.order
    /\ last_id' = r.last_id
    /\ returned' = Append(returned, r.returned)
    /\ registered' = Append(registered, r.template)
    /\ UNCHANGED <<exit_on_help, runvars>>

\* Parser::exit_on_help, in the builder chain that follows Parser::new.
ExitOnHelp ==
    /\ ret.kind = "none"
    /\ returned = <<>>
    /\ \E v \in BOOLEAN :
        /\ v # exit_on_help
        /\ exit_on_help' = v
    /\ UNCHANGED <<regvars, runvars>>

Add ==
    /\ Registering
    /\ \E inp \in SugarInputs :
        Commit(AddToMap(stored, order, last_id,
                        NumberOfValues(Matches(TemplateNew, inp[1]), inp[2])))

AddTemplate ==
    /\ Registering
    /\ \E template \in TemplateInputs :
        Commit(AddToMap(stored, order, last_id, template))

AddSubcommand ==
    /\ Registering
    /\ \E subargument_of \in Parents, inp \in SugarInputs :
        Commit(AddChildToMap(stored, order, last_id, subargument_of,
                             NumberOfValues(Matches(TemplateNew, inp[1]), inp[2])))

AddSubcommandTemplate ==
    /\ Registering
    /\ \E subargument_of \in Parents, template \in TemplateInputs :
        Commit(AddChildToMap(stored, order, last_id, subargument_of, template))

(***************************************************************************)
(* Parser::parse.  Positions are 0-based as in the source: the token at    *)
(* position i of the vector as is as[i + 1].                               *)
(*                                                                         *)
(* One run of the loop is a record: the locals context, hm and idhm, the   *)
(* callback invocations (calls), the help messages printed (helps), one    *)
(* event per token processed (trace) and, once the call has ended, how it  *)
(* ended (ret).  HashMap::values() visits the entries in an order the      *)
(* program does not control, so a find() over it may return any entry      *)
(* that satisfies the predicate and Loop yields the set of runs possible.  *)
(***************************************************************************)
\* (mutant) Only the long alias asks for help.
IsHelpLongOnly(arg) == arg = "--help"

IsHelp(arg) == arg = "--help" \/ arg = "-h"

Has(map, k) == k \in DOMAIN map

ParsedArgumentNew(id, values) == [id |-> id, values |-> values]

Event(index, arg, kind, key, id, values, before, after) ==
    [index |-> index, arg |-> arg, kind |-> kind, key |-> key, id |-> id,
     values |-> values, before |-> before, after |-> after]

\* (mutant) The inner loop stops at a top-level key only.
RECURSIVE CollectValuesTopLevelOnly(_, _, _, _, _, _)
CollectValuesTopLevelOnly(as, ctx, index, num_values, i, values) ==
    IF ~(i < index + num_values) THEN values
    ELSE IF i + 1 = Len(as) THEN values
    ELSE LET value == as[(i + 1) + 1] IN
         IF Has(stored, Key(0, value)) THEN values
         ELSE CollectValuesTopLevelOnly(as, ctx, index, num_values, i + 1,
                                        Append(values, value))

\* (mutant) The inner loop does not stop at num_values values.
RECURSIVE CollectValuesUnbounded(_, _, _, _, _, _)
CollectValuesUnbounded(as, ctx, index, num_values, i, values) ==
    IF i + 1 = Len(as) THEN values
    ELSE LET value == as[(i + 1) + 1]
             q1 == Key(ctx, value)
             q2 == Key(0, value)
         IN IF Has(stored, q1) \/ Has(stored, q2) THEN values
            ELSE CollectValuesUnbounded(as, ctx, index, num_values, i + 1,
                                        Append(values, value))

\* (mutant) The inner loop stops at a key of the new context only.
RECURSIVE CollectValuesContextOnly(_, _, _, _, _, _)
CollectValuesContextOnly(as, ctx, index, num_values, i, values) ==
    IF ~(i < index + num_values) THEN values
    ELSE IF i + 1 = Len(as) THEN values
    ELSE LET value == as[(i + 1) + 1] IN
         IF Has(stored, Key(ctx, value)) THEN values
         ELSE CollectValuesContextOnly(as, ctx, index, num_values, i + 1,
                                       Append(values, value))

\* The inner while loop: the values collected for the match at `index`,
\* with i the position reached and ctx the context the match has set.
RECURSIVE CollectValues(_, _, _, _, _, _)
CollectValues(as, ctx, index, num_values, i, values) ==
    IF ~(i < index + num_values) THEN values
    ELSE IF i + 1 = Len(as) THEN values
    ELSE LET value == as[(i + 1) + 1]
             q1 == Key(ctx, value)
             q2 == Key(0, value)
         IN IF Has(stored, q1) \/ Has(stored, q2) THEN values
            ELSE CollectValues(as, ctx, index, num_values, i + 1,
                               Append(values, value))

\* (mutant) The context is switched only by a template that takes values.
MatchedContextIfValues(template, before) ==
    IF template.num_values = 0 THEN before ELSE template.id

\* The context the loop continues with after a match of `template`.
MatchedContext(template, before) == template.id

\* (mutant) The arity check lets a shortfall of one value pass.
ArityFailsOffByOne(template, count) ==
    ~template.optional_vals /\ count + 1 < template.num_values

\* (mutant) The arity check does not look at optional_vals.
ArityFailsIgnoringOptional(template, count) == count < template.num_values

\* The arity check that follows the collection of the values.
ArityFails(template, count) ==
    ~template.optional_vals /\ count < template.num_values

\* (mutant) The callback is invoked for the first occurrence only.
InvokeOnce(cs, template, values, index) ==
    IF template.action /\ ~(\E j \in 1..Len(cs) : cs[j].id = template.id)
        THEN Append(cs, [id |-> template.id, values |-> values, at |-> index])
        ELSE cs

\* The callback invocations after a match that has passed the arity check;
\* `at` notes the position of the token, which the callback is not given.
Invoke(cs, template, values, index) ==
    IF template.action
        THEN Append(cs, [id |-> template.id, values |-> values, at |-> index])
        ELSE cs

\* (mutant) An occurrence is recorded under every alias of its template.
RecordedUnderEveryAlias(run, key, pa) ==
    LET aliases == Range(stored[key].matches)
        keys == {Key(key[1], a) : a \in aliases}
    IN [run EXCEPT !.hm = [k \in keys |-> pa] @@ @,
                   !.idhm = Insert(@, pa.id, pa)]

\* (mutant) An occurrence does not replace the one recorded before it.
RecordedOnce(run, key, pa) ==
    [run EXCEPT !.hm = IF Has(@, key) THEN @ ELSE Insert(@, key, pa),
                !.idhm = IF Has(@, pa.id) THEN @ ELSE Insert(@, pa.id, pa)]

\* The occurrence pa recorded in both maps: hm.insert and idhm.insert.
Recorded(run, key, pa) ==
    [run EXCEPT !.hm = Insert(@, key, pa), !.idhm = Insert(@, pa.id, pa)]

\* (mutant) The find of the third arm does not look at the aliases.
FindAnywhereAny(arg) == {stored[k] : k \in DOMAIN stored}

\* stored.values().find(|t| t.matches.contains(arg)): the entries it may return.
FindAnywhere(arg) ==
    {stored[k] : k \in {q \in DOMAIN stored : arg \in Range(stored[q].matches)}}

\* stored.values().find(|t| t.id == parent): the entries it may return.
FindParent(parent) ==
    {stored[k] : k \in {q \in DOMAIN stored : stored[q].id = parent}}

End(run, r) == [run EXCEPT !.ret = r]

Note(run, ev) == [run EXCEPT !.trace = Append(@, ev)]

RECURSIVE Loop(_, _, _)

\* Either arm of the loop body that has found a template: `key` is query
\* in the first arm and query2 in the second, and the arms differ in nothing
\* else.
MatchArm(as, index, run, key) ==
    LET arg == as[index + 1]
        template == stored[key]
        ctx == MatchedContext(template, run.context)
        values == CollectValues(as, ctx, index, template.num_values, index, <<>>)
        count == Len(values)
        pa == ParsedArgumentNew(template.id, values)
    IN IF ArityFails(template, count)
       THEN { End(Note([run EXCEPT !.context = ctx],
                       Event(index, arg, "arity", key, template.id, values,
                             run.context, ctx)),
                  [kind |-> "NumberOfValues", arg |-> arg, got |-> count,
                   expected |-> template.num_values]) }
       ELSE Loop(as, index + 1,
                 Note(Recorded([run EXCEPT !.context = ctx,
                                           !.calls = Invoke(@, template,
                                                            values, index)],
                               key, pa),
                      Event(index, arg, "match", key, template.id, values,
                            run.context, ctx)))

\* The third arm with `template` the entry found for the token.
FoundArm(as, index, run, template) ==
    LET arg == as[index + 1] IN
    IF template.subargument_of # None
    THEN LET parents == FindParent(template.subargument_of[1]) IN
         IF parents = {}
         THEN { End(Note(run, Event(index, arg, "panic", <<>>, template.id,
                                    <<>>, run.context, run.context)),
                    [kind |-> "panic"]) }
         ELSE { End(Note(run, Event(index, arg, "ooc", <<>>, template.id,
                                    <<>>, run.context, run.context)),
                    [kind |-> "OutOfContext", arg |-> arg,
                     parent |-> parent.matches[1]]) : parent \in parents }
    ELSE Loop(as, index + 1,
              Note(run, Event(index, arg, "skip", <<>>, template.id, <<>>,
                              run.context, run.context)))

\* (mutant) The loop body looks the token up under context 0 first.
BodyTopLevelFirst(as, index, run) ==
    LET arg == as[index + 1]
        query == Key(run.context, arg)
        query2 == Key(0, arg)
    IN IF Has(stored, query2) THEN MatchArm(as, index, run, query2)
       ELSE IF Has(stored, query) THEN MatchArm(as, index, run, query)
       ELSE IF FindAnywhere(arg) # {}
            THEN UNION {FoundArm(as, index, run, t) : t \in FindAnywhere(arg)}
            ELSE Loop(as, index + 1,
                      Note(run, Event(index, arg, "skip", <<>>, 0, <<>>,
                                      run.context, run.context)))

\* The loop body for the token at `index`, after the help check.
Body(as, index, run) ==
    LET arg == as[index + 1]
        query == Key(run.context, arg)
        query2 == Key(0, arg)
    IN IF Has(stored, query) THEN MatchArm(as, index, run, query)
       ELSE IF Has(stored, query2) THEN MatchArm(as, index, run, query2)
       ELSE IF FindAnywhere(arg) # {}
            THEN UNION {FoundArm(as, index, run, t) : t \in FindAnywhere(arg)}
            ELSE Loop(as, index + 1,
                      Note(run, Event(index, arg, "skip", <<>>, 0, <<>>,
                                      run.context, run.context)))

\* The for loop from position `index` on; help_and_exit comes first.
Loop(as, index, run) ==
    IF index = Len(as) THEN { End(run, [kind |-> "Ok"]) }
    ELSE LET arg == as[index + 1]
             helped == IF IsHelp(arg) THEN [run EXCEPT !.helps = @ + 1] ELSE run
         IN IF IsHelp(arg) /\ exit_on_help
            THEN { End(Note(helped, Event(index, arg, "exit", <<>>, 0, <<>>,
                                          run.context, run.context)),
                       [kind |-> "exit"]) }
            ELSE Body(as, index, helped)

\* (mutant) context, hm and idhm are kept from one call to the next.
StartCarried ==
    [context |-> context, hm |-> hm, idhm |-> idhm, calls |-> <<>>, helps |-> 0,
     trace |-> <<>>, ret |-> [kind |-> "none"]]

\* The locals of a call before the loop.
Start ==
    [context |-> 0, hm |-> <<>>, idhm |-> <<>>, calls |-> <<>>, helps |-> 0,
     trace |-> <<>>, ret |-> [kind |-> "none"]]

\* (mutant) The call draws an identifier from the counter of the parser.
ParseFromCounting(lists) ==
    /\ ret.kind = "none"
    /\ \E from \in lists :
        \E run \in Loop(from, 0, Start) :
            /\ args' = from
            /\ context' = run.context
            /\ hm' = run.hm
            /\ idhm' = run.idhm
            /\ calls' = run.calls
            /\ helps' = run.helps
            /\ trace' = run.trace
            /\ ret' = run.ret
    /\ last_id' = GenerateId(last_id)
    /\ UNCHANGED <<stored, order, returned, registered, exit_on_help, second>>

\* A call starts from fresh locals and leaves the registry as it is, so the
\* first call on a parser reaches every state a later call can reach.
ParseFrom(lists) ==
    /\ ret.kind = "none"
    /\ \E from \in lists :
        \E run \in Loop(from, 0, Start) :
            /\ args' = from
            /\ context' = run.context
            /\ hm' = run.hm
            /\ idhm' = run.idhm
            /\ calls' = run.calls
            /\ helps' = run.helps
            /\ trace' = run.trace
            /\ ret' = run.ret
    /\ UNCHANGED <<regvars, exit_on_help, second>>

\* parse on a command line without a help token, and on one with.
Parse == ParseFrom(ArgLists)

ParseHelp == ParseFrom(HelpArgLists)

\* The events of a trace that come from the find of the third arm.
Finds(tr) ==
    {<<tr[m].arg, tr[m].id>> :
        m \in {n \in 1..Len(tr) : tr[n].kind \in {"ooc", "panic", "skip"}}}

\* HashMap::values() visits a map that has not been modified in the order
\* it has visited it before, so two calls on one parser find the same entry
\* for the same token.
SameFind(tr1, tr2) ==
    \A f1 \in Finds(tr1), f2 \in Finds(tr2) : f1[1] = f2[1] => f1[2] = f2[2]

\* A second parse call on the same parser with the same tokens, after a
\* first call that has returned to its caller.
ParseAgain ==
    /\ ret.kind \in {"Ok", "NumberOfValues", "OutOfContext"}
    /\ second = <<>>
    /\ \E run \in Loop(args, 0, Start) :
        /\ SameFind(trace, run.trace)
        /\ second' = run
    /\ UNCHANGED <<regvars, exit_on_help, args, context, hm, idhm, ret, calls,
                   helps, trace>>

\* A parser built by Parser::new, its registrations and a parse of a
\* command line without a help token.
Next ==
    \/ Add
    \/ AddTemplate
    \/ AddSubcommand
    \/ AddSubcommandTemplate
    \/ Parse

Spec == Init /\ [][Next]_vars

\* The same with exit_on_help chosen by the builder and a command line that
\* holds a help token.
NextHelp ==
    \/ ExitOnHelp
    \/ Add
    \/ AddTemplate
    \/ AddSubcommand
    \/ AddSubcommandTemplate
    \/ ParseHelp

SpecHelp == Init /\ [][NextHelp]_vars

\* The first with a second parse call on the same tokens.
NextAgain ==
    \/ Add
    \/ AddTemplate
    \/ AddSubcommand
    \/ AddSubcommandTemplate
    \/ Parse
    \/ ParseAgain

SpecAgain == Init /\ [][NextAgain]_vars

(***************************************************************************)
(* The calc example (examples/calc/src/main.rs): four templates, each with *)
(* a long and a short alias, ManyValues values that are not optional and a *)
(* callback that folds the values it is given into `result`.               *)
(***************************************************************************)
CalcTemplate(long, short) ==
    OnParse(OptionalValues(
        NumberOfValues(Matches(Matches(TemplateNew, long), short), ManyValues),
        FALSE))

\* The templates in the order main registers them.
CalcTemplates ==
    << CalcTemplate("add", "+"), CalcTemplate("sub", "-"),
       CalcTemplate("mul", "*"), CalcTemplate("div", "/") >>

CalcAliases == UNION {Range(CalcTemplates[i].matches) : i \in 1..Len(CalcTemplates)}

\* The operands of the model: two numerals and a token that is no number.
CalcOperands == {"1", "2", "x"}

\* value.parse::<f64>() on the operands of the model.
ParseF64(value) ==
    IF value = "1" THEN Some(1) ELSE IF value = "2" THEN Some(2) ELSE None

\* `result` is a fraction <<numerator, denominator>>; 0. is <<0, 1>>.  The
\* body of the callback of template number op for one value that parses.
CalcApply(op, acc, v) ==
    IF op = 1 THEN <<acc[1] + v * acc[2], acc[2]>>
    ELSE IF op = 2 THEN <<acc[1] - v * acc[2], acc[2]>>
    ELSE IF op = 3 THEN <<acc[1] * v, acc[2]>>
    ELSE <<acc[1], acc[2] * v>>

\* One callback: the loop over the values, from value number i on.
RECURSIVE CalcCallback(_, _, _, _)
CalcCallback(op, acc, values, i) ==
    IF i > Len(values) THEN acc
    ELSE LET parsed == ParseF64(values[i]) IN
         CalcCallback(op,
                      IF parsed # None THEN CalcApply(op, acc, parsed[1]) ELSE acc,
                      values, i + 1)

\* `result` after the callback invocations cs, from invocation number j on.
\* main registers the four templates on a new parser, so the template of
\* number op has the identifier op.
RECURSIVE CalcResultAfter(_, _, _)
CalcResultAfter(cs, j, acc) ==
    IF j > Len(cs) THEN acc
    ELSE CalcResultAfter(cs, j + 1, CalcCallback(cs[j].id, acc, cs[j].values, 1))

\* What main prints last: the result, or the error before exit(1).
CalcOutput ==
    IF ret.kind = "Ok" THEN [exit |-> 0, result |-> CalcResultAfter(calls, 1, <<0, 1>>)]
    ELSE [exit |-> 1, error |-> ret]

\* env::args() of calc: the program name, an operation and its operands,
\* up to MaxOperands of them.
CalcArgLists ==
    {<<"calc", op>> \o operands :
        op \in CalcAliases,
        operands \in UNION {[1..n -> CalcOperands] : n \in 0..MaxOperands}}

\* The next add_template call of main.
CalcAddTemplate ==
    /\ ret.kind = "none"
    /\ Len(returned) < Len(CalcTemplates)
    /\ \A i \in 1..Len(registered) :
            registered[i].matches = CalcTemplates[i].matches
    /\ Commit(AddToMap(stored, order, last_id,
                       CalcTemplates[Len(returned) + 1]))

\* parser.parse(None) of main, after the four registrations.
CalcParse ==
    /\ Len(returned) = Len(CalcTemplates)
    /\ ParseFrom(CalcArgLists)

NextCalc ==
    \/ CalcAddTemplate
    \/ CalcParse

SpecCalc == Init /\ [][NextCalc]_vars

(***************************************************************************)
(* ParsedArguments: the lookups on the result set of the last call.        *)
(***************************************************************************)
ParsedArgumentsGet(key) ==
    IF Has(hm, Key(0, key)) THEN Some(hm[Key(0, key)]) ELSE None

GetWithId(id) == IF Has(idhm, id) THEN Some(idhm[id]) ELSE None

ParsedArgumentsHas(key) == ParsedArgumentsGet(key) # None

HasWithId(id) == GetWithId(id) # None

\* (mutant) The lookup formats the key with context 0 whatever the context.
GetWithContextTopLevel(ctx, key) == ParsedArgumentsGet(key)

GetWithContext(ctx, key) ==
    IF Has(hm, Key(ctx, key)) THEN Some(hm[Key(ctx, key)]) ELSE None

HasWithContext(ctx, key) == GetWithContext(ctx, key) # None


(***************************************************************************)
(* The vocabulary of the properties.  These definitions read the state     *)
(* only: the registry, the tokens, the result of the call and its history. *)
(***************************************************************************)
\* The token at the 0-based position p.
Token(p) == args[p + 1]

IsKey(ctx, tok) == <<ctx, tok>> \in DOMAIN stored

\* Neither a key under context ctx nor a key under the top-level context.
NotKey(ctx, tok) == ~IsKey(ctx, tok) /\ ~IsKey(0, tok)

Templates == {stored[k] : k \in DOMAIN stored}

Carries(id) == \E t \in Templates : t.id = id

\* The stored child templates that list tok among their aliases.
ChildOwners(tok) ==
    {t \in Templates : tok \in Range(t.matches) /\ t.subargument_of # None}

\* The events of the tokens that matched a template (whether or not the
\* arity check passed), and of those that were recorded as an occurrence.
Matched(e) == e.kind \in {"match", "arity"}
Occurrence(e) == e.kind = "match"

\* The number of tokens after position i that can be consumed as values of
\* a template with n values that has set the context ctx: at most n, none
\* of them a key, and followed by a key or by the end unless n are there.
RunLen(i, ctx, n) ==
    CHOOSE k \in 0..Len(args) :
        /\ k <= n
        /\ i + k < Len(args)
        /\ \A j \in 1..k : NotKey(ctx, Token(i + j))
        /\ \/ k = n
           \/ i + k + 1 = Len(args)
           \/ ~NotKey(ctx, Token(i + k + 1))

Run(i, ctx, n) == [j \in 1..RunLen(i, ctx, n) |-> Token(i + j)]

\* The call has returned a result set.
ReturnedOk == ret.kind = "Ok"

\* C1 If the scan reaches a token that is a key neither under the current
\* context nor under context 0 and that is an alias of a child template
\* whose parent P is a stored template, then parse returns
\* OutOfContext(token, first alias of P) for such a P and no further token
\* is processed.
C1_OutOfContextReturned ==
    \A n \in 1..Len(trace) :
        LET e == trace[n] IN
        (/\ NotKey(e.before, e.arg)
         /\ \E o \in ChildOwners(e.arg) : Carries(o.subargument_of[1]))
        => /\ ret.kind = "OutOfContext"
           /\ ret.arg = e.arg
           /\ \E o \in ChildOwners(e.arg), P \in Templates :
                /\ P.id = o.subargument_of[1]
                /\ ret.parent = P.matches[1]
           /\ n = Len(trace)

\* C2 When a template with required values and arity n matches a token and
\* only k < n following tokens can be consumed as values, parse returns
\* NumberOfValues(the token as it appeared, k, n), the token is the last one
\* processed and no result set is returned.
C2_ShortfallReported ==
    \A m \in 1..Len(trace) :
        LET e == trace[m] IN
        Matched(e) =>
            LET t == stored[e.key]
                k == RunLen(e.index, t.id, t.num_values)
            IN (~t.optional_vals /\ k < t.num_values)
               => /\ ret = [kind |-> "NumberOfValues", arg |-> Token(e.index),
                            got |-> k, expected |-> t.num_values]
                  /\ m = Len(trace)
                  /\ ~ReturnedOk

\* C2 is witnessed by a shortfall that has collected one of two values.
C2_Witness ==
    /\ ret.kind = "NumberOfValues"
    /\ ret.got = 1
    /\ ret.expected = 2
    /\ ret.arg = "b"

\* C3 The values recorded for an occurrence at position i are the longest
\* run of the tokens after i, at most arity of them, none of which is a key
\* under the context of the matched template or under context 0.
C3_ValuesAreLongestRun ==
    \A m \in 1..Len(trace) :
        LET e == trace[m] IN
        Occurrence(e) =>
            /\ e.values = Run(e.index, e.id, stored[e.key].num_values)
            /\ (\A l \in (m + 1)..Len(trace) : trace[l].key # e.key)
               => /\ Has(hm, e.key)
                  /\ hm[e.key].values = Run(e.index, e.id, stored[e.key].num_values)

\* C3 is witnessed by an occurrence whose values end at a key before its
\* arity is reached.
C3_Witness ==
    /\ ReturnedOk
    /\ \E m \in 1..Len(trace) :
        LET e == trace[m] IN
        /\ Occurrence(e)
        /\ Len(e.values) >= 1
        /\ Len(e.values) < stored[e.key].num_values
        /\ e.index + Len(e.values) + 1 < Len(args)
        /\ ~NotKey(e.id, Token(e.index + Len(e.values) + 1))
        /\ hm[e.key].values = e.values

\* The positions (in trace) of the occurrences recorded under `key`, and
\* of those of the template `id` under any of its keys.
OccurrencesOf(key) ==
    {m \in 1..Len(trace) : Occurrence(trace[m]) /\ trace[m].key = key}
OccurrencesOfId(id) ==
    {m \in 1..Len(trace) : Occurrence(trace[m]) /\ trace[m].id = id}

Last(S) == CHOOSE m \in S : \A l \in S : l <= m

\* The callback invocations made for the tokens at the positions in S.
CallsAt(S) ==
    LET At(c) == \E m \in S : trace[m].index = c.at
    IN SelectSeq(calls, At)

\* The invocations one per occurrence in S, in token order, each with the
\* values of its occurrence.
OncePerOccurrence(S) ==
    LET In(e) == \E m \in S : trace[m] = e
        occ == SelectSeq(trace, In)
    IN /\ Len(CallsAt(S)) = Cardinality(S)
       /\ \A j \in 1..Len(CallsAt(S)) :
            /\ CallsAt(S)[j].at = occ[j].index
            /\ CallsAt(S)[j].values = occ[j].values
            /\ CallsAt(S)[j].id = occ[j].id

\* C4 (as claimed) If a key is matched two or more times in a pass, the
\* by-key and the by-identifier map hold the values of the last of those
\* occurrences and the callback is invoked once per occurrence, in order.
C4_LastOccurrenceOfKeyInBothMaps ==
    ReturnedOk =>
        \A key \in DOMAIN stored :
            Cardinality(OccurrencesOf(key)) >= 2 =>
                LET e == trace[Last(OccurrencesOf(key))] IN
                /\ hm[key].values = e.values
                /\ idhm[e.id].values = e.values
                /\ stored[key].action => OncePerOccurrence(OccurrencesOf(key))

\* C4 (amended) If a key is matched two or more times in a pass, the by-key
\* map holds the values of the last of those occurrences, the
\* by-identifier map holds the values of the last occurrence of that
\* template through any of its aliases, and the callback is invoked once
\* per occurrence, in order.
C4_LastOccurrenceRetained ==
    ReturnedOk =>
        \A key \in DOMAIN stored :
            Cardinality(OccurrencesOf(key)) >= 2 =>
                LET e == trace[Last(OccurrencesOf(key))]
                    f == trace[Last(OccurrencesOfId(e.id))]
                IN /\ hm[key].values = e.values
                   /\ hm[key].id = e.id
                   /\ idhm[e.id].values = f.values
                   /\ stored[key].action => OncePerOccurrence(OccurrencesOf(key))

\* C4 is witnessed by a key matched twice with different values by a
\* template that has a callback.
C4_Witness ==
    /\ ReturnedOk
    /\ \E key \in DOMAIN stored :
        /\ Cardinality(OccurrencesOf(key)) >= 2
        /\ stored[key].action
        /\ \E m \in OccurrencesOf(key) :
            trace[m].values # trace[Last(OccurrencesOf(key))].values

\* The positions (0-based) of the tokens consumed as values of the
\* occurrence e.
ValuePositions(e) == (e.index + 1)..(e.index + Len(e.values))

\* The token at position p was consumed as a value of an earlier occurrence.
ConsumedAsValue(p) ==
    \E m \in 1..Len(trace) :
        Occurrence(trace[m]) /\ p \in ValuePositions(trace[m])

\* C5 An out-of-context error for a child alias of parent P is returned only
\* when no token matching P has been processed earlier in the pass.  The
\* formula states it for the tokens that no occurrence has consumed as a
\* value, so that a violation shows the context rule alone.
C5_ParentNotMatchedEarlier ==
    (ret.kind = "OutOfContext" /\ ~ConsumedAsValue(Len(trace) - 1)) =>
        ~ \E m \in 1..Len(trace), o \in ChildOwners(ret.arg), P \in Templates :
            /\ P.id = o.subargument_of[1]
            /\ P.matches[1] = ret.parent
            /\ Occurrence(trace[m])
            /\ trace[m].id = P.id

\* C6 A token consumed as a value of an occurrence is not processed again as
\* an argument by the outer pass and is never rejected; the formula states
\* the case the claim names: a value that is an alias of a child template
\* is passed over when the scan comes to it, and the parse goes on.
C6_ChildAliasKeptAsValue ==
    \A m \in 1..Len(trace) :
        Occurrence(trace[m]) =>
            \A p \in ValuePositions(trace[m]) :
                (p < Len(trace) /\ ChildOwners(Token(p)) # {})
                => trace[p + 1].kind = "skip"

\* C7 A parse that meets the alias of a child registered under a parent
\* identifier that no stored template carries returns an out-of-context
\* error to the caller.
C7_UnknownParentIsAnError ==
    \A n \in 1..Len(trace) :
        LET e == trace[n] IN
        (/\ NotKey(e.before, e.arg)
         /\ ChildOwners(e.arg) # {}
         /\ \A o \in ChildOwners(e.arg) : ~Carries(o.subargument_of[1]))
        => ret.kind = "OutOfContext" /\ ret.arg = e.arg

\* C8 Every match, one of an arity-0 template included, sets the context
\* to the identifier of the matched template, so a token that is an alias
\* of a child of the template matched just before it is matched under the
\* key (identifier of the parent, alias) and, in a result set, is present
\* under that key with the values that follow it.
C8_MatchSetsContext ==
    /\ \A m \in 1..Len(trace) :
        Matched(trace[m]) => trace[m].after = stored[trace[m].key].id
    /\ \A m \in 1..(Len(trace) - 1) :
        LET e == trace[m]
            f == trace[m + 1]
        IN (Occurrence(e) /\ IsKey(e.id, f.arg))
           => /\ Matched(f)
              /\ f.key = <<e.id, f.arg>>
              /\ stored[f.key].subargument_of = Some(e.id)
              /\ ReturnedOk =>
                    /\ Has(hm, <<e.id, f.arg>>)
                    /\ OccurrencesOf(f.key) = {m + 1} =>
                         hm[<<e.id, f.arg>>] =
                            [id |-> stored[f.key].id,
                             values |-> Run(f.index, stored[f.key].id,
                                            stored[f.key].num_values)]

\* C8 is witnessed by an arity-0 parent followed by its child and the two
\* values of the child, as in [-c, --add, 1, 2].
C8_Witness ==
    /\ ReturnedOk
    /\ Len(trace) >= 2
    /\ Occurrence(trace[1])
    /\ stored[trace[1].key].num_values = 0
    /\ Occurrence(trace[2])
    /\ trace[2].key = <<trace[1].id, args[2]>>
    /\ stored[trace[2].key].subargument_of = Some(trace[1].id)
    /\ Len(hm[trace[2].key].values) = 2

\* The occurrences of the templates that have a callback.
CallbackOccurrence(e) == Occurrence(e) /\ stored[e.key].action

\* C9 The callback invocations of a parse are, in order, the occurrences of
\* the templates that have a callback, each with the values of its
\* occurrence; an occurrence is a match that passes the arity check, and
\* nothing is invoked for a match that fails it or after the token the
\* parse has stopped at.
C9_CallbacksAreTheOccurrences ==
    LET occ == SelectSeq(trace, CallbackOccurrence) IN
    /\ Len(calls) = Len(occ)
    /\ \A j \in 1..Len(calls) :
        calls[j] = [id |-> occ[j].id, values |-> occ[j].values,
                    at |-> occ[j].index]
    /\ \A m \in 1..Len(trace) :
        LET e == trace[m] IN
        Matched(e) =>
            LET t == stored[e.key]
                k == RunLen(e.index, t.id, t.num_values)
            IN Occurrence(e) <=> (t.optional_vals \/ k >= t.num_values)
    /\ \A m \in 1..(Len(trace) - 1) : trace[m].kind \in {"match", "skip"}

\* C9 is witnessed by a parse that has invoked a callback and has then
\* stopped at a match that fails the arity check.
C9_Witness ==
    /\ ret.kind = "NumberOfValues"
    /\ Len(calls) >= 1
    /\ stored[trace[Len(trace)].key].action

\* C10 A template with optional values that matches with fewer consumable
\* tokens than its arity is no error: the occurrence is recorded and its
\* callback is invoked with exactly the tokens consumed.
C10_OptionalShortfallIsRecorded ==
    \A m \in 1..Len(trace) :
        LET e == trace[m] IN
        (Matched(e) /\ stored[e.key].optional_vals) =>
            LET t == stored[e.key]
                run == Run(e.index, t.id, t.num_values)
            IN /\ Occurrence(e)
               /\ t.action =>
                    \E j \in 1..Len(calls) :
                        calls[j] = [id |-> t.id, values |-> run, at |-> e.index]
               /\ (ReturnedOk /\ Last(OccurrencesOf(e.key)) = m) =>
                    hm[e.key] = [id |-> t.id, values |-> run]
               /\ (ReturnedOk /\ Last(OccurrencesOfId(t.id)) = m) =>
                    idhm[t.id] = [id |-> t.id, values |-> run]

\* C10 is witnessed by an optional template of arity 99 recorded with the
\* three tokens that follow it.
C10_Witness ==
    /\ ReturnedOk
    /\ Len(args) = 4
    /\ Has(hm, <<0, args[1]>>)
    /\ stored[<<0, args[1]>>].optional_vals
    /\ stored[<<0, args[1]>>].num_values = ManyValues
    /\ hm[<<0, args[1]>>].values = <<args[2], args[3], args[4]>>
    /\ calls = <<[id |-> hm[<<0, args[1]>>].id,
                 values |-> <<args[2], args[3], args[4]>>, at |-> 0]>>

\* The reserved help aliases.
HelpAliases == {"--help", "-h"}

\* The token of the event e is no help alias, no key under the context the
\* scan was in or under context 0, and an alias of no stored template.
Unknown(e) ==
    /\ e.arg \notin HelpAliases
    /\ NotKey(e.before, e.arg)
    /\ \A t \in Templates : e.arg \notin Range(t.matches)

\* C11 A token that is no help alias, no key under the current context or
\* under context 0 and an alias of no stored template is skipped silently:
\* the parse does not end in an error at it, the next token is looked up
\* under the same context, no callback is invoked for it, and the two result
\* maps hold the occurrences and nothing else.
C11_UnknownTokenSkipped ==
    \A n \in 1..Len(trace) :
        LET e == trace[n] IN
        Unknown(e) =>
            /\ e.kind = "skip"
            /\ e.after = e.before
            /\ n < Len(trace) => trace[n + 1].before = e.before
            /\ n = Len(trace) => (ReturnedOk /\ n = Len(args) /\ context = e.before)
            /\ \A j \in 1..Len(calls) : calls[j].at # e.index
            /\ \A k \in DOMAIN hm : k[2] # e.arg
            /\ DOMAIN hm = {trace[m].key : m \in {l \in 1..Len(trace) : Occurrence(trace[l])}}
            /\ DOMAIN idhm = {trace[m].id : m \in {l \in 1..Len(trace) : Occurrence(trace[l])}}

\* C11 is witnessed by a result set returned after an unknown token was met
\* in the context of a matched template.
C11_Witness ==
    /\ ReturnedOk
    /\ \E n \in 1..Len(trace) :
        /\ Unknown(trace[n])
        /\ trace[n].before # 0
        /\ ~ConsumedAsValue(trace[n].index)
        /\ \E t \in Templates : t.subargument_of # None

\* The contexts a lookup can name: 0 and the identifiers handed out, and one
\* that no template carries.
Contexts == 0..(last_id + 1)

\* Some token of the pass was recorded as an occurrence under the key.
MatchedUnder(key) == OccurrencesOf(key) # {}

\* C12 After a successful parse a lookup by name reports present exactly
\* when a token of the pass was matched under the key (context, name), for
\* context 0 (has, get) and for every other context (has_with_context,
\* get_with_context), and a stored template none of whose aliases was
\* matched is in neither map.
C12_PresentIffMatched ==
    ReturnedOk =>
        /\ \A name \in Names :
            /\ ParsedArgumentsHas(name) <=> MatchedUnder(<<0, name>>)
            /\ ParsedArgumentsHas(name) <=> ParsedArgumentsGet(name) # None
            /\ \A c \in Contexts :
                /\ HasWithContext(c, name) <=> MatchedUnder(<<c, name>>)
                /\ HasWithContext(c, name) <=> GetWithContext(c, name) # None
        /\ \A t \in Templates :
            OccurrencesOfId(t.id) = {} =>
                /\ ~HasWithId(t.id)
                /\ GetWithId(t.id) = None
                /\ \A k \in DOMAIN hm : hm[k].id # t.id
                /\ \A i \in DOMAIN idhm : idhm[i].id # t.id

\* C12 is witnessed by a result set in which one template is present by
\* name and by identifier and another stored template is absent.
C12_Witness ==
    /\ ReturnedOk
    /\ \E name \in Names, c \in Contexts :
        /\ HasWithContext(c, name)
        /\ HasWithId(stored[<<c, name>>].id)
    /\ \E name \in Names :
        /\ IsKey(0, name)
        /\ ~ParsedArgumentsHas(name)
        /\ ~HasWithId(stored[<<0, name>>].id)

\* The Parsed Argument pa respects the arity of the template t: at most
\* num_values values, and exactly that many unless the values are optional.
WithinArity(pa, t) ==
    /\ Len(pa.values) <= t.num_values
    /\ ~t.optional_vals => Len(pa.values) = t.num_values

\* C13 In a result set every Parsed Argument, in the by-key map and in the
\* by-identifier map, holds at most arity values of its template, and
\* exactly arity values when the template is not optional.
C13_ValuesWithinArity ==
    ReturnedOk =>
        /\ \A key \in DOMAIN hm :
            /\ hm[key].id = stored[key].id
            /\ WithinArity(hm[key], stored[key])
        /\ \A id \in DOMAIN idhm :
            /\ idhm[id].id = id
            /\ Carries(id)
            /\ \A t \in Templates : t.id = id => WithinArity(idhm[id], t)

\* C13 is witnessed by a template with two required values recorded with
\* the two plain tokens that follow it, and a third token after them.
C13_Witness ==
    /\ ReturnedOk
    /\ Len(args) = 4
    /\ \E key \in DOMAIN hm :
        /\ ~stored[key].optional_vals
        /\ stored[key].num_values = 2
        /\ hm[key].values = <<args[2], args[3]>>
        /\ idhm[hm[key].id].values = <<args[2], args[3]>>
        /\ NotKey(hm[key].id, args[4])

Written(k) == k \notin DOMAIN stored \/ stored'[k] # stored[k]

\* C15 The identifiers the registration calls return are positive, each is
\* greater than every one returned before it (so none is returned twice),
\* and every registry entry a call writes carries the identifier the call
\* returns.
C15_IdentifiersIncreaseAndAreCarried ==
    /\ [](/\ \A i \in 1..Len(returned) : returned[i] > 0
          /\ \A i, j \in 1..Len(returned) : i < j => returned[i] < returned[j]
          /\ \A k \in DOMAIN stored : stored[k].id \in Range(returned))
    /\ [][returned' # returned =>
            /\ Len(returned') = Len(returned) + 1
            /\ \A k \in DOMAIN stored' :
                Written(k) => stored'[k].id = returned'[Len(returned')]
            /\ \E k \in DOMAIN stored' : Written(k)]_vars

\* C15 is witnessed by a top-level registration followed by the
\* registration of a child, both with entries in the registry.
C15_Witness ==
    /\ Len(returned) = 2
    /\ \E k1, k2 \in DOMAIN stored :
        /\ stored[k1].id = returned[1]
        /\ stored[k1].subargument_of = None
        /\ stored[k2].id = returned[2]
        /\ stored[k2].subargument_of = Some(returned[1])

\* The registration calls (by their number) of a template that has the
\* alias a under the parent p; a top-level template has the parent 0.
RegisteredUnder(p, a) ==
    {i \in 1..Len(registered) :
        /\ a \in Range(registered[i].matches)
        /\ UnwrapOr(registered[i].subargument_of, 0) = p}

\* C16 After any sequence of registrations the key (parent p, alias a)
\* yields the template of the latest registration that has alias a under
\* parent p, for every alias of every template registered, and no key is
\* stored that no registration has written: a later registration of the
\* alias under the same parent replaces the entry, and one under another
\* parent leaves it as it is.
C16_LastWriteWinsPerKey ==
    /\ \A k \in DOMAIN stored : RegisteredUnder(k[1], k[2]) # {}
    /\ \A i \in 1..Len(registered) :
        LET p == UnwrapOr(registered[i].subargument_of, 0) IN
        \A a \in Range(registered[i].matches) :
            /\ IsKey(p, a)
            /\ stored[<<p, a>>] = registered[Last(RegisteredUnder(p, a))]

\* C16 is witnessed by an alias registered twice under one parent, while
\* another alias of the first template still yields the first template.
C16_Witness ==
    \E p \in Contexts, a, b \in Names :
        /\ RegisteredUnder(p, b) = {1, 2}
        /\ RegisteredUnder(p, a) = {1}
        /\ stored[<<p, b>>].id = returned[2]
        /\ stored[<<p, a>>].id = returned[1]

\* The positions (in trace) at which the scan has reached a help alias.
HelpPositions == {n \in 1..Len(trace) : trace[n].arg \in HelpAliases}

PreferredKey(e) ==
    IF IsKey(e.before, e.arg) THEN <<e.before, e.arg>> ELSE <<0, e.arg>>

\* C18 A token that is a key under the current context is matched by the
\* contextual template, whether or not it is a key under context 0 as well:
\* the identifier of that template becomes the context, its arity, its
\* optionality and its callback are applied and the occurrence is recorded
\* under the contextual key, not under (0, token).  The top-level key is
\* used only when the contextual key is absent, and the occurrence is then
\* recorded under (0, token).
C18_ContextualKeyFirst ==
    \A n \in 1..Len(trace) :
        LET e == trace[n]
            key == PreferredKey(e)
        IN (e.arg \notin HelpAliases /\ (IsKey(e.before, e.arg) \/ IsKey(0, e.arg))) =>
            LET t == stored[key]
                k == RunLen(e.index, t.id, t.num_values)
            IN /\ Matched(e)
               /\ e.key = key
               /\ e.id = t.id
               /\ e.after = t.id
               /\ Occurrence(e) <=> (t.optional_vals \/ k >= t.num_values)
               /\ Occurrence(e) =>
                    /\ e.values = Run(e.index, t.id, t.num_values)
                    /\ t.action <=> \E j \in 1..Len(calls) :
                            calls[j] = [id |-> t.id, values |-> e.values,
                                        at |-> e.index]
                    /\ Has(hm, key)
                    /\ Last(OccurrencesOf(key)) = n =>
                            hm[key] = [id |-> t.id, values |-> e.values]
                    /\ (key # <<0, e.arg>> /\ OccurrencesOf(<<0, e.arg>>) = {})
                            => ~Has(hm, <<0, e.arg>>)

\* C18 is witnessed by a token that is a key under the current context and
\* under context 0, with two different templates, and is recorded under the
\* contextual key alone.
C18_Witness ==
    /\ ReturnedOk
    /\ \E n \in 1..Len(trace) :
        LET e == trace[n] IN
        /\ e.before # 0
        /\ IsKey(e.before, e.arg)
        /\ IsKey(0, e.arg)
        /\ stored[<<0, e.arg>>].id # stored[<<e.before, e.arg>>].id
        /\ Has(hm, <<e.before, e.arg>>)
        /\ ~Has(hm, <<0, e.arg>>)

\* C19 Every registration call, top-level or child, consumes one
\* identifier and returns the previous highest plus one: the identifiers
\* returned by successive registrations are 1, 2, 3, ... without gaps, and
\* the counter is the number of registrations made.
C19_IdentifiersWithoutGaps ==
    /\ \A i \in 1..Len(returned) : returned[i] = i
    /\ last_id = Len(returned)

\* A parse step: the call has ended, however it ended.
ParseStep == ret.kind = "none" /\ ret'.kind # "none"

\* C20 A parse call leaves the registry as it is: the key-to-template map,
\* the registration order and the identifier counter are the same after
\* the call as before it, whether it returns a result set or an error.
C20_ParseLeavesRegistry ==
    [][ParseStep =>
        /\ stored' = stored
        /\ order' = order
        /\ last_id' = last_id]_vars

\* C20 is witnessed by a call that has returned an error on a registry of
\* two templates, whose counter is still the identifier returned last.
C20_Witness ==
    /\ ret.kind \in {"NumberOfValues", "OutOfContext"}
    /\ Len(returned) = 2
    /\ last_id = returned[2]
    /\ Len(order) >= 3
    /\ Cardinality(DOMAIN stored) >= 3

\* The stored templates that list tok among their aliases.
Owners(tok) == {t \in Templates : tok \in Range(t.matches)}

\* C21 A token is skipped silently only if no stored template lists it as
\* an alias.  Whenever the contextual and the top-level lookup both fail
\* for a token that some stored template owns, every such owner declares a
\* parent other than 0 and other than the current context, and the pass
\* ends at the token; an owner without a parent is never found there.
C21_SkippedOnlyIfUnowned ==
    \A n \in 1..Len(trace) :
        LET e == trace[n] IN
        /\ e.kind = "skip" => (Owners(e.arg) = {} /\ e.id = 0)
        /\ (e.arg \notin HelpAliases /\ NotKey(e.before, e.arg)
                /\ Owners(e.arg) # {}) =>
            /\ \A t \in Owners(e.arg) :
                /\ t.subargument_of # None
                /\ t.subargument_of[1] # 0
                /\ t.subargument_of[1] # e.before
            /\ e.kind \in {"ooc", "panic"}
            /\ n = Len(trace)
            /\ ~ReturnedOk

\* C21 is witnessed by a token met in the context of a matched template
\* that is no key there or at the top level and is owned by a child of
\* another stored template.
C21_Witness ==
    \E n \in 1..Len(trace) :
        LET e == trace[n] IN
        /\ e.before # 0
        /\ NotKey(e.before, e.arg)
        /\ \E t \in Owners(e.arg) : Carries(t.subargument_of[1])
        /\ e.kind = "ooc"

\* The operands of the command line of calc, and the operation before them.
CalcOperation == args[2]
CalcGiven == SubSeq(args, 3, Len(args))

\* C22 In calc an operation alias followed by two or more numeric
\* operands, up to ManyValues of them, parses successfully: main exits with
\* 0, the callback of the operation is invoked once with exactly those
\* operands and the result printed is their fold.
C22_CalcFoldsTwoOrMore ==
    (/\ ret.kind # "none"
     /\ Len(CalcGiven) >= 2
     /\ Len(CalcGiven) <= ManyValues
     /\ \A i \in 1..Len(CalcGiven) : ParseF64(CalcGiven[i]) # None)
    => /\ ReturnedOk
       /\ calls = <<[id |-> stored[<<0, CalcOperation>>].id,
                     values |-> CalcGiven, at |-> 1]>>
       /\ CalcOutput =
            [exit |-> 0,
             result |-> CalcCallback(stored[<<0, CalcOperation>>].id,
                                     <<0, 1>>, CalcGiven, 1)]

\* C23 No token is both consumed as a value and matched as an argument.
\* When the outer scan reaches a token that an occurrence has consumed as a
\* value, the context is still the identifier of that occurrence's
\* template, the token is a key neither under it nor under context 0 and
\* matches no template, the context is left as it is, no callback is
\* invoked for the token and no occurrence is recorded for it.
C23_ValuesAreNotMatched ==
    \A m \in 1..Len(trace) :
        Occurrence(trace[m]) =>
            \A p \in ValuePositions(trace[m]) :
                p < Len(trace) =>
                    LET f == trace[p + 1] IN
                    /\ f.index = p
                    /\ f.before = trace[m].id
                    /\ NotKey(f.before, f.arg)
                    /\ ~Matched(f)
                    /\ f.after = f.before
                    /\ \A j \in 1..Len(calls) : calls[j].at # p
                    /\ \A k \in DOMAIN hm :
                        Last(OccurrencesOf(k)) # p + 1

\* C23 is witnessed by a result set whose pass has come to both values of
\* an occurrence after recording them.
C23_Witness ==
    /\ ReturnedOk
    /\ \E m \in 1..Len(trace) :
        /\ Occurrence(trace[m])
        /\ Len(trace[m].values) = 2
        /\ \A p \in ValuePositions(trace[m]) : trace[p + 1].kind = "skip"
        /\ \E l \in (m + 3)..Len(trace) : Occurrence(trace[l])

\* C24 After a successful parse the two maps agree per template and not
\* per alias.  get_with_id(id) is present exactly when some by-key entry
\* carries id, and it holds the values of the last occurrence of the
\* template through whichever alias.  A by-key entry exists only for a key
\* whose alias appeared in the tokens and was matched under it, and holds
\* the last occurrence matched through that key: a template with the
\* aliases a and b that was matched through a only is present under a and
\* absent under b.
C24_MapsAgreePerTemplate ==
    ReturnedOk =>
        /\ DOMAIN idhm \subseteq Contexts
        /\ \A id \in Contexts :
            /\ HasWithId(id) <=> \E k \in DOMAIN hm : hm[k].id = id
            /\ HasWithId(id) =>
                /\ OccurrencesOfId(id) # {}
                /\ GetWithId(id) =
                    Some([id |-> id,
                          values |-> trace[Last(OccurrencesOfId(id))].values])
        /\ \A k \in DOMAIN hm :
            /\ OccurrencesOf(k) # {}
            /\ \E i \in 1..Len(args) : args[i] = k[2]
            /\ GetWithContext(k[1], k[2]) =
                Some([id |-> stored[k].id,
                      values |-> trace[Last(OccurrencesOf(k))].values])
        /\ \A k \in DOMAIN stored :
            OccurrencesOf(k) = {} => ~HasWithContext(k[1], k[2])

\* C24 is witnessed by a template with two aliases that was matched twice
\* through one of them and never through the other.
C24_Witness ==
    /\ ReturnedOk
    /\ \E x, y \in Names :
        /\ x # y
        /\ IsKey(0, x)
        /\ IsKey(0, y)
        /\ stored[<<0, x>>].id = stored[<<0, y>>].id
        /\ Cardinality(OccurrencesOf(<<0, x>>)) = 2
        /\ ParsedArgumentsHas(x)
        /\ ~ParsedArgumentsHas(y)
        /\ HasWithId(stored[<<0, x>>].id)
        /\ GetWithId(stored[<<0, x>>].id) = ParsedArgumentsGet(x)

====
